---------------------------- MODULE Spec2Model ----------------------------
(***************************************************************************)
(* Verification model of the sweet CockroachDB benchmark driver            *)
(* (sweet/benchmarks/cockroachdb/main.go) and of the diagnostics poller    *)
(* it uses (sweet/benchmarks/internal/server/server.go).                   *)
(*                                                                         *)
(* Three specifications share the module's variables:                      *)
(*   SpecPoll      one PollDiagnostic session: the polling goroutine, the  *)
(*                 CollectDiagnostic call it makes, and the caller that    *)
(*                 invokes the stop handle;                                *)
(*   Spec          one call of run(): cluster launch, the benchmark body   *)
(*                 with its diagnostics, and the deferred teardown;        *)
(*   SpecShutdown  shutdown() called any number of times on instances in   *)
(*                 any state.                                              *)
(***************************************************************************)
EXTENDS Integers, Sequences, FiniteSets, TLC

(***************************************************************************)
(* Bounds of the model.                                                    *)
(***************************************************************************)
\* Most CollectDiagnostic calls one session may begin.
MaxFetches == 3
\* Largest response body, in bytes.
MaxBody == 2
\* Largest nodeCount of a benchmark (the benchmarks table uses 1 and 3).
MaxNodes == 3

(***************************************************************************)
(* Program constants.                                                      *)
(***************************************************************************)
basePort == 26257

VARIABLES
    \* ---- PollDiagnostic session (server.go) ----
    stopc,          \* the stop channel: "open" or "closed"
    wgCount,        \* counter of the session's sync.WaitGroup
    size,           \* the session's byte counter (uint64)
    pollPc,         \* position of the polling goroutine
    stopPc,         \* position of the caller of the stop handle
    ret,            \* value returned by the stop handle (-1: not returned)
    fileLen,        \* length of the file at outputPath
    nCopied,        \* CollectDiagnostic's local n
    resp,           \* the response of the http.Get in progress
    reachable,      \* whether the endpoint accepts connections at all
    \* history of the session, read only by the properties
    fetches,        \* CollectDiagnostic calls begun
    completed,      \* CollectDiagnostic calls returned
    fileWrites,     \* truncations of and writes to the output file
    okSum,          \* sum of n over the calls that returned (n, nil)
    lastN,          \* n of the last returned call, 0 when it returned an error
    failedAt,       \* number of the call that returned an error (0: none)
    closeInFlight,  \* stopc was closed while a CollectDiagnostic call ran
    fetchesAtClose, \* fetches when stopc was closed (-1: still open)
    okAtClose,      \* okSum when stopc was closed
    notFoundAt      \* number of the first call answered with HTTP 404 (0: none)

VARIABLES
    \* ---- run() and the cluster (cockroachdb/main.go) ----
    nodeCount,      \* cfg.bench.nodeCount
    runPc,          \* position of run(); "blocked": in a shutdown call
                    \* whose Process.Wait never returns
    instances,      \* the instance list built by the launch function
    idx,            \* index of the loop in progress (spawn or teardown)
    join,           \* per instance, the addresses of its --join argument
    proc,           \* per instance, the state of its server process
    output,         \* per instance, whether its output buffer is non-empty
    initCmds,       \* the cluster-init commands issued, by target address
    failedSpawn,    \* the instance whose cmd.Start() failed (0: none)
    initExit,       \* exit status of the cluster-init process: "none" when
                    \* it was not started, else "zero" or "nonzero"
    timer,          \* the benchmark timer of driver.B
    err,            \* run's named result err
    shutdownLog,    \* the shutdown calls made so far, in order
    surfaced,       \* instances whose output was written to os.Stderr
    enabled,        \* the diagnostic kinds driver.DiagnosticEnabled accepts
    finishers,      \* the body's finishers slice: [kind, inst] per entry
    sess,           \* per finisher, its poller session: "none" when it has
                    \* none, else "live", "failed", "closed", "stopped"
    fin,            \* per finisher: "pending", "go", "called", "returned"
    finRet,         \* per finisher, the value finish() returned (-1: none)
    stopCalls,      \* per finisher, the number of calls made of it
    traceSum,       \* the body's atomic sum of trace bytes
    reported,       \* the d.Report calls of the body: [name, value]
    diagOutcomes,   \* the outcomes the run's diagnostic collections had
    benchErr,       \* the error returned by runBenchmark (kind "none": not yet)
    bodyErr         \* the error returned by the benchmark body

VARIABLES
    \* ---- main() of the cockroachdb benchmark (cockroachdb/main.go) ----
    mainPc,         \* position of main()
    procs,          \* runtime.GOMAXPROCS(-1) when main starts
    procsPerInst,   \* cliCfg.procsPerInst (0: not set yet)
    gomaxprocs,     \* the GOMAXPROCS setting of the driver process itself
    childEnv        \* the child processes set up so far, in order, each
                    \* with the GOMAXPROCS value of its environment

VARIABLES
    \* ---- run() of pgosweep (cmd/pgosweep/main.go) ----
    sweepPc,        \* position of run()
    createTries,    \* calls of Create made so far
    sweepInst,      \* the instance Create returned (0: none yet)
    sweepStep,      \* the remote step run() is at
    stepsRun,       \* the remote steps executed, in order
    destroyCalls,   \* the instances Destroy was called on, in order
    logOpen,        \* whether the log file is open
    sweepErr        \* what run() returns: "nil", "log" or the failed step

VARIABLES
    \* ---- Configuration.runBinary of bent (cmd/bench/gotest.go) ----
    binPc,          \* position of runBinary
    readerPc,       \* per reader goroutine: "none", "read", "send", "done"
    sendVal,        \* per reader, the value it is sending on its channel
    reads,          \* per reader, the ReadBytes calls made
    sent,           \* per reader, the sends completed on its channel
    recvd,          \* errS and errE: what runBinary received ("none": not yet)
    benchLines,     \* the writes made to c.benchWriter
    binRet          \* the kind of message runBinary returned

VARIABLES
    \* ---- LB.bench of the GC latency benchmark (gc_latency/latency.go) ----
    latPc,          \* position of bench
    bN,             \* b.N of the testing harness (0: b == nil, run by main)
    lbs,            \* the two LB values: lb0, the receiver, and lb, the one
                    \* of the measured run; each [total, delays, worst]
    latI,           \* the loop variable i of work
    count,          \* the local count of bench (0: not set yet)
    average         \* the average bench computed (-1: not yet)

pollVars == <<stopc, wgCount, size, pollPc, stopPc, ret, fileLen, nCopied, resp,
              reachable, fetches, completed, fileWrites, okSum, lastN, failedAt,
              closeInFlight, fetchesAtClose, okAtClose, notFoundAt>>

\* The benchmark body and its diagnostics.
diagVars == <<enabled, finishers, sess, fin, finRet, stopCalls, traceSum,
              reported, diagOutcomes, benchErr, bodyErr>>

\* The cluster-init process.
initVars == <<initExit>>

runVars == <<nodeCount, runPc, instances, idx, join, proc, output, initCmds,
             failedSpawn, timer, err, shutdownLog, surfaced, diagVars,
             initVars>>

\* main() and the environments it hands to its child processes.
mainVars == <<mainPc, procs, procsPerInst, gomaxprocs, childEnv>>

\* run() of pgosweep.
sweepVars == <<sweepPc, createTries, sweepInst, sweepStep, stepsRun,
               destroyCalls, logOpen, sweepErr>>

\* runBinary of bent.
binVars == <<binPc, readerPc, sendVal, reads, sent, recvd, benchLines, binRet>>

\* bench of the GC latency benchmark.
latVars == <<latPc, bN, lbs, latI, count, average>>

\* The programs other than run() and a poller session.
toolVars == <<mainVars, sweepVars, binVars, latVars>>

vars == <<pollVars, runVars, toolVars>>

NoResp == [status |-> 0, body |-> 0]

(***************************************************************************)
(* PollDiagnostic: state right after it returns the stop handle            *)
(* (wg.Add(1), stopc made, goroutine started, size zero).                  *)
(***************************************************************************)
PollDiagnostic ==
    /\ stopc = "open"
    /\ wgCount = 1
    /\ size = 0
    /\ pollPc = "select"
    /\ stopPc = "idle"
    /\ ret = -1
    /\ fileLen = 0
    /\ nCopied = 0
    /\ resp = NoResp
    /\ reachable \in BOOLEAN
    /\ fetches = 0
    /\ completed = 0
    /\ fileWrites = 0
    /\ okSum = 0
    /\ lastN = 0
    /\ failedAt = 0
    /\ closeInFlight = FALSE
    /\ fetchesAtClose = -1
    /\ okAtClose = 0
    /\ notFoundAt = 0

\* The goroutine is inside CollectDiagnostic.
InCollect == pollPc \in {"create", "get", "copy", "copydata"}

\* select { case <-stopc: return; default: }: a closed channel is always
\* ready to receive, and default runs only when no case is ready.
SelectStops_Never == FALSE
SelectStops == stopc = "closed"

\* if err != nil { log; return }: where the goroutine goes after a failed call.
AfterFetchError_Retry == "select"
AfterFetchError == "exited"

\* defer wg.Done() runs when the goroutine function returns, whichever
\* return statement ended it.
WgAfter_DoneOnStopOnly(pc) ==
    IF pc = "exited" /\ stopc = "closed" THEN wgCount - 1 ELSE wgCount
WgAfter(pc) == IF pc = "exited" THEN wgCount - 1 ELSE wgCount

\* size += uint64(n).  size is a uint64 and n a non-negative int64; the sums
\* of the model stay below MaxFetches * MaxBody, far from 2^64.
AddSize(s, n) == s + n

\* os.Create(outputPath): the file is created or truncated to length 0.
CreateLen(len) == 0

\* io.Copy(f, resp.Body) writes at the file offset, 0 after os.Create.
CopyLen(len, written) == len + written

\* CollectDiagnostic returned (0, err) or (n, err): the loop logs and exits.
FetchFailed ==
    /\ pollPc' = AfterFetchError
    /\ wgCount' = WgAfter(AfterFetchError)
    /\ completed' = completed + 1
    /\ lastN' = 0
    /\ failedAt' = IF failedAt = 0 THEN fetches ELSE failedAt
    /\ nCopied' = 0
    /\ resp' = NoResp

\* Loop top: the cancellation check, then the call of CollectDiagnostic.
PollSelect ==
    /\ UNCHANGED runVars
    /\ UNCHANGED toolVars
    /\ pollPc = "select"
    /\ \/ /\ SelectStops
          /\ pollPc' = "exited"
          /\ wgCount' = WgAfter("exited")
          /\ UNCHANGED fetches
       \/ /\ ~SelectStops
          /\ fetches < MaxFetches
          /\ pollPc' = "create"
          /\ fetches' = fetches + 1
          /\ UNCHANGED wgCount
    /\ UNCHANGED <<stopc, size, stopPc, ret, fileLen, nCopied, resp, reachable,
                   completed, fileWrites, okSum, lastN, failedAt, closeInFlight,
                   fetchesAtClose, okAtClose, notFoundAt>>

\* f, err := os.Create(outputPath)
CollectCreate ==
    /\ UNCHANGED runVars
    /\ UNCHANGED toolVars
    /\ pollPc = "create"
    /\ \/ /\ pollPc' = "get"
          /\ fileLen' = CreateLen(fileLen)
          /\ fileWrites' = fileWrites + 1
          /\ UNCHANGED <<wgCount, completed, lastN, failedAt, nCopied, resp>>
       \/ /\ FetchFailed
          /\ UNCHANGED <<fileLen, fileWrites>>
    /\ UNCHANGED <<stopc, size, stopPc, ret, reachable, fetches, okSum,
                   closeInFlight, fetchesAtClose, okAtClose, notFoundAt>>

\* resp, err := http.Get(...): a transport error is an error, an HTTP status
\* (200 or 404) is not.
CollectGet ==
    /\ UNCHANGED runVars
    /\ UNCHANGED toolVars
    /\ pollPc = "get"
    /\ \/ /\ reachable
          /\ \E st \in {200, 404}, b \in 0..MaxBody :
                /\ resp' = [status |-> st, body |-> b]
                /\ notFoundAt' = IF st = 404 /\ notFoundAt = 0
                                 THEN fetches ELSE notFoundAt
          /\ pollPc' = "copy"
          /\ UNCHANGED <<wgCount, completed, lastN, failedAt, nCopied>>
       \/ /\ FetchFailed
          /\ UNCHANGED notFoundAt
    /\ UNCHANGED <<stopc, size, stopPc, ret, fileLen, reachable, fetches,
                   fileWrites, okSum, closeInFlight, fetchesAtClose, okAtClose>>

\* n, err := io.Copy(f, resp.Body): on an error part of the body may have
\* been written already.
CollectCopy ==
    /\ UNCHANGED runVars
    /\ UNCHANGED toolVars
    /\ pollPc = "copy"
    /\ \/ /\ pollPc' = "copydata"
          /\ nCopied' = resp.body
          /\ fileLen' = CopyLen(fileLen, resp.body)
          /\ fileWrites' = fileWrites + 1
          /\ UNCHANGED <<wgCount, completed, lastN, failedAt, resp>>
       \/ /\ \E k \in 0..resp.body :
                /\ fileLen' = CopyLen(fileLen, k)
                /\ fileWrites' = IF k > 0 THEN fileWrites + 1 ELSE fileWrites
          /\ FetchFailed
    /\ UNCHANGED <<stopc, size, stopPc, ret, reachable, fetches, okSum,
                   closeInFlight, fetchesAtClose, okAtClose, notFoundAt>>

\* return n, driver.CopyDiagnosticData(outputPath, typ, benchName)
CopyDiagnosticData == {"nil", "error"}

CollectCopyData ==
    /\ UNCHANGED runVars
    /\ UNCHANGED toolVars
    /\ pollPc = "copydata"
    /\ \E e \in CopyDiagnosticData :
          \/ /\ e = "nil"
             /\ pollPc' = "add"
             /\ completed' = completed + 1
             /\ okSum' = okSum + nCopied
             /\ lastN' = nCopied
             /\ resp' = NoResp
             /\ UNCHANGED <<wgCount, failedAt, nCopied>>
          \/ /\ e = "error"
             /\ FetchFailed
             /\ UNCHANGED okSum
    /\ UNCHANGED <<stopc, size, stopPc, ret, fileLen, reachable, fetches,
                   fileWrites, closeInFlight, fetchesAtClose, okAtClose,
                   notFoundAt>>

\* size += uint64(n), then back to the loop top.
PollAdd ==
    /\ UNCHANGED runVars
    /\ UNCHANGED toolVars
    /\ pollPc = "add"
    /\ size' = AddSize(size, nCopied)
    /\ nCopied' = 0
    /\ pollPc' = "select"
    /\ UNCHANGED <<stopc, wgCount, stopPc, ret, fileLen, resp, reachable,
                   fetches, completed, fileWrites, okSum, lastN, failedAt,
                   closeInFlight, fetchesAtClose, okAtClose, notFoundAt>>

\* The stop handle: close(stopc)
StopClose ==
    /\ UNCHANGED runVars
    /\ UNCHANGED toolVars
    /\ stopPc = "idle"
    /\ stopc' = "closed"
    /\ stopPc' = "wait"
    /\ closeInFlight' = InCollect
    /\ fetchesAtClose' = fetches
    /\ okAtClose' = okSum
    /\ UNCHANGED <<wgCount, size, pollPc, ret, fileLen, nCopied, resp,
                   reachable, fetches, completed, fileWrites, okSum, lastN,
                   failedAt, notFoundAt>>

\* wg.Wait() returns when the counter is zero.
WgWait_NoWait == TRUE
WgWait == wgCount = 0

StopWait ==
    /\ UNCHANGED runVars
    /\ UNCHANGED toolVars
    /\ stopPc = "wait"
    /\ WgWait
    /\ stopPc' = "read"
    /\ UNCHANGED <<stopc, wgCount, size, pollPc, ret, fileLen, nCopied, resp,
                   reachable, fetches, completed, fileWrites, okSum, lastN,
                   failedAt, closeInFlight, fetchesAtClose, okAtClose,
                   notFoundAt>>

\* return size
StopReturn ==
    /\ UNCHANGED runVars
    /\ UNCHANGED toolVars
    /\ stopPc = "read"
    /\ ret' = size
    /\ stopPc' = "returned"
    /\ UNCHANGED <<stopc, wgCount, size, pollPc, fileLen, nCopied, resp,
                   reachable, fetches, completed, fileWrites, okSum, lastN,
                   failedAt, closeInFlight, fetchesAtClose, okAtClose,
                   notFoundAt>>

NextPoll ==
    \/ PollSelect
    \/ CollectCreate
    \/ CollectGet
    \/ CollectCopy
    \/ CollectCopyData
    \/ PollAdd
    \/ StopClose
    \/ StopWait
    \/ StopReturn


(***************************************************************************)
(* run(): cluster launch, benchmark body, deferred teardown.               *)
(***************************************************************************)
\* cliCfg.host (the flag's default)
Host == "127.0.0.1"

Nodes == 1..MaxNodes

NilErr == [kind |-> "nil", inst |-> 0]
\* No error value yet: the function has not returned.
NoErr == [kind |-> "none", inst |-> 0]
ErrStartingCluster == [kind |-> "starting cluster", inst |-> 0]

\* Most finishers one benchmark body holds.
MaxFinishers == 4
\* Most bytes one session collects.
MaxSessionBytes == 1

\* diagnostics.CPUProfile, diagnostics.Trace, diagnostics.MemProfile
Kinds == {"cpu", "trace", "mem"}

\* The benchmark body has not been entered: it holds no finisher.
NoDiagnostics ==
    /\ finishers = <<>>
    /\ sess = <<>>
    /\ fin = <<>>
    /\ finRet = <<>>
    /\ stopCalls = <<>>
    /\ traceSum = 0
    /\ reported = <<>>
    /\ diagOutcomes = {}
    /\ benchErr = NoErr
    /\ bodyErr = NoErr

\* State of run() on entry.
InitRun ==
    /\ nodeCount \in Nodes
    /\ runPc = "launch"
    /\ instances = <<>>
    /\ idx = 0
    /\ join = [i \in Nodes |-> <<>>]
    /\ proc = [i \in Nodes |-> "none"]
    /\ output = [i \in Nodes |-> FALSE]
    /\ initCmds = <<>>
    /\ failedSpawn = 0
    /\ initExit = "none"
    /\ timer = "idle"
    /\ err = NilErr
    /\ shutdownLog = <<>>
    /\ surfaced = {}
    /\ enabled \in SUBSET Kinds
    /\ Cardinality(enabled) * nodeCount <= MaxFinishers
    /\ NoDiagnostics

\* fmt.Sprintf("%s:%d", cliCfg.host, i.sqlPort)
sqlAddr(inst) == [host |-> Host, port |-> inst.sqlPort]

\* fmt.Sprintf("%s:%d", cliCfg.host, i.httpPort)
httpAddr(inst) == [host |-> Host, port |-> inst.httpPort]

\* The addresses of insts in order (joined with "," in the code).
clusterAddresses(insts) == [k \in 1..Len(insts) |-> sqlAddr(insts[k])]

\* The instance built for loop index i (0-based, as in the code).
ClusterInstance_PortClash(i) ==
    [name |-> <<"roach-node", i + 1>>,
     sqlPort |-> basePort + 2 * i,
     httpPort |-> basePort + 2 * i + 2,
     cmd |-> "nil"]
ClusterInstance(i) ==
    [name |-> <<"roach-node", i + 1>>,
     sqlPort |-> basePort + 2 * i,
     httpPort |-> basePort + 2 * i + 1,
     cmd |-> "nil"]

\* The instance of launchSingleNodeCluster.
SingleInstance ==
    [name |-> <<"roach-node">>,
     sqlPort |-> basePort,
     httpPort |-> basePort + 1,
     cmd |-> "nil"]

\* allOtherInstances for the instance at position n (1-based): built by
\* appending to a fresh empty slice, so the backing array of insts is not
\* written.  The result carries the list as it is afterwards.
allOtherInstances_Aliased(insts, n) ==
    LET others == SubSeq(insts, 1, n - 1) \o SubSeq(insts, n + 1, Len(insts))
    IN  [others |-> others,
         insts  |-> others \o SubSeq(insts, Len(insts), Len(insts))]
allOtherInstances(insts, n) ==
    [others |-> SubSeq(insts, 1, n - 1) \o SubSeq(insts, n + 1, Len(insts)),
     insts  |-> insts]

\* inst1 := instances[0]; --host=cfg.host --port=inst1.sqlPort
InitTarget_Last(insts) == [host |-> Host, port |-> insts[Len(insts)].sqlPort]
InitTarget(insts) == [host |-> Host, port |-> insts[1].sqlPort]

\* if cfg.bench.nodeCount == 1 { launchSingleNodeCluster } else { ... }
UsesSingleNodeLaunch(n) == n = 1

\* A failed cmd.Start() makes the launch function return the error, and run
\* returns it.
AfterSpawnFailure_Ignore == "ready"
AfterSpawnFailure == "done"

\* launchSingleNodeCluster, and run's handling of its result.
launchSingleNodeCluster ==
    /\ runPc = "launch"
    /\ UsesSingleNodeLaunch(nodeCount)
    /\ \E started \in BOOLEAN :
          /\ instances' = <<[SingleInstance EXCEPT !.cmd = "start-single-node"]>>
          /\ IF started
             THEN /\ proc' = [proc EXCEPT ![1] = "running"]
                  /\ runPc' = "ready"
                  /\ UNCHANGED <<failedSpawn, err>>
             ELSE /\ failedSpawn' = 1
                  /\ err' = ErrStartingCluster
                  /\ runPc' = AfterSpawnFailure
                  /\ UNCHANGED proc
    /\ UNCHANGED <<nodeCount, idx, join, output, initCmds, timer, shutdownLog,
                   surfaced>>
    /\ UNCHANGED diagVars
    /\ UNCHANGED initVars
    /\ UNCHANGED pollVars
    /\ UNCHANGED toolVars

\* launchCockroachCluster: the loop that builds the instance list.
launchCockroachCluster_Construct ==
    /\ runPc = "launch"
    /\ ~UsesSingleNodeLaunch(nodeCount)
    /\ instances' = [i \in 1..nodeCount |-> ClusterInstance(i - 1)]
    /\ idx' = 1
    /\ runPc' = "spawn"
    /\ UNCHANGED <<nodeCount, join, proc, output, initCmds, failedSpawn, timer,
                   err, shutdownLog, surfaced>>
    /\ UNCHANGED diagVars
    /\ UNCHANGED initVars
    /\ UNCHANGED pollVars
    /\ UNCHANGED toolVars

\* Where launchCockroachCluster goes after starting instance i of n: the
\* init command comes after the loop over all instances.
AfterSpawn_InitEarly(i, n) == "init"
AfterSpawn(i, n) == IF i = n THEN "init" ELSE "spawn"

\* launchCockroachCluster: one iteration of the loop that starts the
\* instances; a failed cmd.Start() returns from the function, and run returns
\* the error at once (its cleanup is not deferred yet).
launchCockroachCluster_Spawn ==
    /\ runPc = "spawn"
    /\ LET a == allOtherInstances(instances, idx)
       IN  /\ join' = [join EXCEPT ![idx] = clusterAddresses(a.others)]
           /\ instances' = [a.insts EXCEPT ![idx].cmd = "start"]
    /\ \E started \in BOOLEAN :
          IF started
          THEN /\ proc' = [proc EXCEPT ![idx] = "running"]
               /\ idx' = idx + 1
               /\ runPc' = AfterSpawn(idx, Len(instances))
               /\ UNCHANGED <<failedSpawn, err>>
          ELSE /\ failedSpawn' = idx
               /\ err' = ErrStartingCluster
               /\ runPc' = AfterSpawnFailure
               /\ UNCHANGED <<proc, idx>>
    /\ UNCHANGED <<nodeCount, output, initCmds, timer, shutdownLog, surfaced>>
    /\ UNCHANGED diagVars
    /\ UNCHANGED initVars
    /\ UNCHANGED pollVars
    /\ UNCHANGED toolVars

\* launchCockroachCluster: after the sleep, the init command is started
\* against instances[0], its output going to that instance's buffer.  exit
\* is the status the init process ends with; only initCmd.Start() is
\* called, nothing waits for the process.
launchCockroachCluster_Init ==
    /\ runPc = "init"
    /\ initCmds' = Append(initCmds, InitTarget(instances))
    /\ \E started \in BOOLEAN, wrote \in BOOLEAN,
          exit \in {"zero", "nonzero"} :
          /\ output' = [output EXCEPT ![1] = output[1] \/ (started /\ wrote)]
          /\ initExit' = IF started THEN exit ELSE "none"
          /\ IF started
             THEN /\ runPc' = "ready"
                  /\ UNCHANGED err
             ELSE /\ err' = ErrStartingCluster
                  /\ runPc' = "done"
    /\ UNCHANGED <<nodeCount, instances, idx, join, proc, failedSpawn, timer,
                   shutdownLog, surfaced>>
    /\ UNCHANGED diagVars
    /\ UNCHANGED pollVars
    /\ UNCHANGED toolVars

\* A running server process writes to its instance's output buffer.
instanceOutput ==
    /\ runPc \notin {"launch", "done"}
    /\ \E i \in 1..Len(instances) :
          /\ proc[i] = "running"
          /\ ~output[i]
          /\ output' = [output EXCEPT ![i] = TRUE]
    /\ UNCHANGED <<nodeCount, runPc, instances, idx, join, proc, initCmds,
                   failedSpawn, timer, err, shutdownLog, surfaced>>
    /\ UNCHANGED diagVars
    /\ UNCHANGED initVars
    /\ UNCHANGED pollVars
    /\ UNCHANGED toolVars

\* The kinds collected by a PollDiagnostic session.
PolledKinds == {"cpu", "trace"}

\* for _, inst := range instances { finishers = append(finishers, ...) }:
\* each finisher is built for the instance of its own iteration.
FinishersOf_SameInstance(kind, en, n) ==
    IF kind \in en THEN [i \in 1..n |-> [kind |-> kind, inst |-> 1]] ELSE <<>>
FinishersOf(kind, en, n) ==
    IF kind \in en THEN [i \in 1..n |-> [kind |-> kind, inst |-> i]] ELSE <<>>

\* The finishers slice the body builds: one entry per enabled kind and
\* instance, the kinds in the order of the three if statements.
Finishers(en, n) ==
    FinishersOf("cpu", en, n) \o FinishersOf("trace", en, n)
        \o FinishersOf("mem", en, n)

\* The outputPath argument given to PollDiagnostic and CollectDiagnostic
\* for finisher f: cfg.tmpDir in all three loops.
outputPath(f) == "cfg.tmpDir"

\* What setting up a finisher of this kind starts: a PollDiagnostic session
\* for a polled kind, nothing for the others.
StartSession(kind) == IF kind \in PolledKinds THEN "live" ELSE "none"

\* run: the settle sleep, the deferred cleanup is registered, and
\* driver.RunBenchmark calls the benchmark body, which sets up diagnostics.
RunBenchmark ==
    /\ runPc = "ready"
    /\ runPc' = "bench"
    /\ LET fs == Finishers(enabled, Len(instances))
       IN  /\ finishers' = fs
           /\ sess' = [k \in 1..Len(fs) |-> StartSession(fs[k].kind)]
           /\ fin' = [k \in 1..Len(fs) |-> "pending"]
           /\ finRet' = [k \in 1..Len(fs) |-> -1]
           /\ stopCalls' = [k \in 1..Len(fs) |-> 0]
    /\ UNCHANGED <<nodeCount, instances, idx, join, proc, output, initCmds,
                   failedSpawn, timer, err, shutdownLog, surfaced>>
    /\ UNCHANGED <<enabled, traceSum, reported, diagOutcomes, benchErr,
                   bodyErr>>
    /\ UNCHANGED initVars
    /\ UNCHANGED pollVars
    /\ UNCHANGED toolVars

\* A session's goroutine fails a collection, logs it and returns (server.go,
\* the loop of PollDiagnostic).
PollDiagnostic_Fail ==
    /\ runPc \in {"bench", "workload", "finish"}
    /\ \E k \in 1..Len(finishers) :
          /\ sess[k] = "live"
          /\ sess' = [sess EXCEPT ![k] = "failed"]
    /\ UNCHANGED <<nodeCount, runPc, instances, idx, join, proc, output,
                   initCmds, failedSpawn, timer, err, shutdownLog, surfaced>>
    /\ UNCHANGED <<enabled, finishers, fin, finRet, traceSum, reported,
                   diagOutcomes, benchErr, bodyErr>>
    /\ UNCHANGED stopCalls
    /\ UNCHANGED initVars
    /\ UNCHANGED pollVars
    /\ UNCHANGED toolVars

\* runBenchmark up to the start of the workload: b.ResetTimer(), cmd.Run().
runBenchmark_Start ==
    /\ runPc = "bench"
    /\ timer' = "running"
    /\ runPc' = "workload"
    /\ UNCHANGED <<nodeCount, instances, idx, join, proc, output, initCmds,
                   failedSpawn, err, shutdownLog, surfaced>>
    /\ UNCHANGED diagVars
    /\ UNCHANGED initVars
    /\ UNCHANGED pollVars
    /\ UNCHANGED toolVars

\* inst.cmd.Process.Kill() on every instance: a running process is killed.
Kill(p) == IF p \in {"running", "interrupted"} THEN "killed" ELSE p

\* The finishers the body's deferred function starts when runBenchmark has
\* returned res: a deferred function runs whatever the function returns.
DeferredFinishers_SkipOnError(res, fs) ==
    IF res = "workload" THEN {} ELSE 1..Len(fs)
DeferredFinishers(res, fs) == 1..Len(fs)

\* runBenchmark from the end of the workload: on an error it returns at once;
\* otherwise it stops the timer, kills the instances and reports.  The
\* body's deferred function then starts one goroutine per finisher.
runBenchmark_End ==
    /\ runPc = "workload"
    /\ \E res \in {"nil", "workload", "report"} :
          /\ benchErr' = [kind |-> res, inst |-> 0]
          /\ IF res = "workload"
             THEN UNCHANGED <<timer, proc>>
             ELSE /\ timer' = "stopped"
                  /\ proc' = [i \in Nodes |->
                                IF i <= nodeCount THEN Kill(proc[i]) ELSE proc[i]]
          /\ fin' = [k \in 1..Len(finishers) |->
                       IF k \in DeferredFinishers(res, finishers)
                       THEN "go" ELSE "pending"]
    /\ runPc' = "finish"
    /\ UNCHANGED <<nodeCount, instances, idx, join, output, initCmds,
                   failedSpawn, err, shutdownLog, surfaced>>
    /\ UNCHANGED <<enabled, finishers, sess, finRet, traceSum, reported,
                   diagOutcomes, bodyErr>>
    /\ UNCHANGED stopCalls
    /\ UNCHANGED initVars
    /\ UNCHANGED pollVars
    /\ UNCHANGED toolVars

\* go func() { defer wg.Done(); finish() }(): the goroutine of finisher k
\* may run whatever the other goroutines are doing.
CanRunFinisher_Sequential(k) == \A j \in 1..(k - 1) : fin[j] = "returned"
CanRunFinisher(k) == TRUE

\* finish := finish: the goroutine started in iteration k calls the finisher
\* of that iteration.
FinishTarget_LoopVariable(k) == Len(finishers)
FinishTarget(k) == k

\* The goroutine of finisher k calls finish(): the stop handle of a polled
\* kind closes stopc; the finisher of the other kinds starts one
\* CollectDiagnostic.
finisherCall(k) ==
    /\ runPc = "finish"
    /\ k \in 1..Len(finishers)
    /\ fin[k] = "go"
    /\ CanRunFinisher(k)
    /\ fin' = [fin EXCEPT ![k] = "called"]
    /\ LET t == FinishTarget(k)
       IN  /\ stopCalls' = [stopCalls EXCEPT ![t] = @ + 1]
           /\ sess' = [sess EXCEPT ![t] = IF @ = "live" THEN "closed" ELSE @]
    /\ UNCHANGED <<nodeCount, runPc, instances, idx, join, proc, output,
                   initCmds, failedSpawn, timer, err, shutdownLog, surfaced>>
    /\ UNCHANGED <<enabled, finishers, finRet, traceSum, reported,
                   diagOutcomes, benchErr, bodyErr>>
    /\ UNCHANGED initVars
    /\ UNCHANGED pollVars
    /\ UNCHANGED toolVars

\* How a collection ended: failed tells whether it ended on an error, n
\* what it had collected.
Outcome(failed, n) ==
    IF ~failed THEN "ok" ELSE IF n = 0 THEN "failed-first" ELSE "failed-partway"

\* finish() of finisher k returns n.  A stop handle returns the session's
\* size, the bytes of its successful collections, once the goroutine has
\* exited; the finisher of the other kinds returns what its
\* CollectDiagnostic copied, an error being logged only.  The trace
\* finisher adds n to sum.
finisherReturn(k) ==
    /\ runPc = "finish"
    /\ k \in 1..Len(finishers)
    /\ fin[k] = "called"
    /\ \E n \in 0..MaxSessionBytes, failed \in BOOLEAN :
          /\ (sess[FinishTarget(k)] # "none") =>
                (failed <=> sess[FinishTarget(k)] = "failed")
          /\ finRet' = [finRet EXCEPT ![k] = n]
          /\ traceSum' = IF finishers[FinishTarget(k)].kind = "trace"
                         THEN AddSize(traceSum, n) ELSE traceSum
          /\ diagOutcomes' = diagOutcomes \cup {Outcome(failed, n)}
    /\ fin' = [fin EXCEPT ![k] = "returned"]
    /\ sess' = [sess EXCEPT ![FinishTarget(k)] =
                   IF @ = "none" THEN "none" ELSE "stopped"]
    /\ UNCHANGED <<nodeCount, runPc, instances, idx, join, proc, output,
                   initCmds, failedSpawn, timer, err, shutdownLog, surfaced>>
    /\ UNCHANGED <<enabled, finishers, reported, benchErr, bodyErr>>
    /\ UNCHANGED stopCalls
    /\ UNCHANGED initVars
    /\ UNCHANGED pollVars
    /\ UNCHANGED toolVars

\* The reports the body's deferred functions make.
Reports(en, sum) ==
    IF "trace" \in en
    THEN <<[kind |-> "trace", name |-> "trace-bytes", value |-> sum]>>
    ELSE <<>>

\* The error the body returns: the one runBenchmark returned.
BodyResult_DiagFails(be, outcomes) ==
    IF be = NilErr /\ outcomes \ {"ok"} # {}
    THEN [kind |-> "diagnostic", inst |-> 0] ELSE be
BodyResult(be, outcomes) == be

\* driver.RunBenchmark returns the error of the body it ran.
RunBenchmarkResult(e) == e

\* wg.Wait() in the body's deferred function returns when every goroutine
\* started has called wg.Done(), that is when its finish() has returned.
FinishersJoined_NoWait == TRUE
FinishersJoined ==
    \A k \in 1..Len(finishers) : fin[k] \in {"pending", "returned"}

\* wg.Wait() has returned: every goroutine started has called wg.Done().
\* The body's deferred functions then end (the trace report is the last),
\* the body returns, driver.RunBenchmark returns its error to run, and
\* run's deferred cleanup starts.
bodyReturn ==
    /\ runPc = "finish"
    /\ FinishersJoined
    /\ reported' = reported \o Reports(enabled, traceSum)
    /\ bodyErr' = BodyResult(benchErr, diagOutcomes)
    /\ err' = RunBenchmarkResult(bodyErr')
    /\ idx' = 1
    /\ runPc' = "teardown"
    /\ finishers' = <<>>
    /\ sess' = <<>>
    /\ fin' = <<>>
    /\ finRet' = <<>>
    /\ stopCalls' = <<>>
    /\ traceSum' = 0
    /\ UNCHANGED <<nodeCount, instances, join, proc, output, initCmds,
                   failedSpawn, timer, shutdownLog, surfaced>>
    /\ UNCHANGED <<enabled, diagOutcomes, benchErr>>
    /\ UNCHANGED initVars
    /\ UNCHANGED pollVars
    /\ UNCHANGED toolVars

\* shutdown(): sig and wait are the results of Process.Signal and
\* Process.Wait.  Gives the error returned and the process state left.
\* waited tells whether Process.Wait was called.
shutdown(inst, p, sig, wait) ==
    IF inst.cmd = "nil"
    THEN [r |-> "nil", proc |-> p, waited |-> FALSE]
    ELSE IF sig # "nil"
    THEN [r |-> "signal", proc |-> p, waited |-> FALSE]
    ELSE IF wait # "nil"
    THEN [r |-> "wait", proc |-> IF p = "running" THEN "interrupted" ELSE p,
          waited |-> TRUE]
    ELSE [r |-> "nil", proc |-> "reaped", waited |-> TRUE]

\* ping: the instance's cmd is replaced by a "cockroach sql" command, which
\* is run to its end.
ping(inst) == [inst EXCEPT !.cmd = "sql"]

\* The state of inst.cmd.Process, the process shutdown signals, p being the
\* state of the instance's server process: the server when cmd is the
\* command that started it; the probe, run and waited for by cmd.Run(),
\* when ping has replaced cmd.
CmdProcess(inst, p) == IF inst.cmd = "sql" THEN "reaped" ELSE p

\* The shutdown call sh as it leaves the server process, found in state p:
\* the server is touched only when cmd is its command.
OnServer(inst, p, sh) == IF inst.cmd = "sql" THEN [sh EXCEPT !.proc = p] ELSE sh

\* Results Process.Signal can give for a process in state p: once the
\* process has been waited for, os.Process reports "process already
\* finished"; before that the signal is delivered or the call fails.
SignalResults(p) == IF p = "reaped" THEN {"error"} ELSE {"nil", "error"}

\* Results Process.Wait can give.
WaitResults(p) == {"nil", "error"}

\* Whether a process in state p exits once it has been sent os.Interrupt: a
\* process that was killed or has ended has exited; a running one exits or
\* never does.
ExitsAfterInterrupt(p) == IF p = "running" THEN BOOLEAN ELSE {TRUE}

\* What Process.Wait does in shutdown when the process exits or not: it has
\* no timeout, and shutdown has no second signal; it returns when the
\* process has exited and blocks for as long as it has not.
WaitOutcome_KillAfterTimeout(exits) == IF exits THEN "returns" ELSE "kill"
WaitOutcome(exits) == IF exits THEN "returns" ELSE "blocks"

\* The end of one shutdown() call sh made on a process in state p that
\* exits or not: the call as it is when Process.Wait is not reached or
\* returns; "blocks" when Process.Wait never returns.
ShutdownEnd(sh, p, exits) ==
    IF ~sh.waited \/ WaitOutcome(exits) = "returns" THEN sh
    ELSE IF WaitOutcome(exits) = "kill"
    THEN [sh EXCEPT !.proc = "killed"]
    ELSE [sh EXCEPT !.r = "blocks", !.proc = "interrupted"]

\* if r != nil { if err == nil { err = r } else { log } }
MergeShutdownErr_Overwrite(e, r, i) ==
    IF r # "nil" THEN [kind |-> "shutdown", inst |-> i] ELSE e
MergeShutdownErr(e, r, i) ==
    IF r # "nil" /\ e = NilErr THEN [kind |-> "shutdown", inst |-> i] ELSE e

\* if err != nil && inst.output.Len() != 0 { write the output to os.Stderr }
SurfacesOutput_Always(e, hasOutput) == hasOutput
SurfacesOutput(e, hasOutput) == e # NilErr /\ hasOutput

\* The record kept of one shutdown call.
LogEntry(i, before, sh) ==
    [inst |-> i, r |-> sh.r, waited |-> sh.waited, before |-> before,
     after |-> sh.proc]


\* The deferred loop goes on to the next instance whatever shutdown returned.
NextShutdownIdx_StopOnError(i, r) == IF r # "nil" THEN nodeCount + 1 ELSE i + 1
NextShutdownIdx(i, r) == i + 1

\* run's deferred cleanup, one iteration: shutdown, record or log its error,
\* write the instance's output to os.Stderr when err is set.  When
\* Process.Wait never returns, run stays in this shutdown call for ever.
deferredShutdown ==
    /\ runPc = "teardown"
    /\ \E sig \in SignalResults(CmdProcess(instances[idx], proc[idx])),
          wait \in WaitResults(CmdProcess(instances[idx], proc[idx])),
          exits \in ExitsAfterInterrupt(CmdProcess(instances[idx], proc[idx])) :
          LET cp == CmdProcess(instances[idx], proc[idx])
              sh == OnServer(instances[idx], proc[idx],
                       ShutdownEnd(shutdown(instances[idx], cp, sig, wait),
                                   cp, exits))
              err1 == MergeShutdownErr(err, sh.r, idx)
              next == NextShutdownIdx(idx, sh.r)
          IN  /\ proc' = [proc EXCEPT ![idx] = sh.proc]
              /\ IF sh.r = "blocks"
                 THEN /\ runPc' = "blocked"
                      /\ UNCHANGED <<shutdownLog, err, surfaced, idx>>
                 ELSE /\ shutdownLog' = Append(shutdownLog,
                                               LogEntry(idx, proc[idx], sh))
                      /\ err' = err1
                      /\ surfaced' = IF SurfacesOutput(err1, output[idx])
                                     THEN surfaced \cup {idx}
                                     ELSE surfaced
                      /\ idx' = next
                      /\ runPc' = IF next > Len(instances)
                                  THEN "done" ELSE "teardown"
    /\ UNCHANGED <<nodeCount, instances, join, output, initCmds, failedSpawn,
                   timer>>
    /\ UNCHANGED diagVars
    /\ UNCHANGED initVars
    /\ UNCHANGED pollVars
    /\ UNCHANGED toolVars

NextRun ==
    \/ launchSingleNodeCluster
    \/ launchCockroachCluster_Construct
    \/ launchCockroachCluster_Spawn
    \/ launchCockroachCluster_Init
    \/ instanceOutput
    \/ RunBenchmark
    \/ PollDiagnostic_Fail
    \/ runBenchmark_Start
    \/ runBenchmark_End
    \/ \E k \in 1..MaxFinishers : finisherCall(k)
    \/ \E k \in 1..MaxFinishers : finisherReturn(k)
    \/ bodyReturn
    \/ deferredShutdown

\* No poller session exists.
NoSession ==
    /\ stopc = "open"
    /\ wgCount = 0
    /\ size = 0
    /\ pollPc = "none"
    /\ stopPc = "none"
    /\ ret = -1
    /\ fileLen = 0
    /\ nCopied = 0
    /\ resp = NoResp
    /\ reachable = TRUE
    /\ fetches = 0
    /\ completed = 0
    /\ fileWrites = 0
    /\ okSum = 0
    /\ lastN = 0
    /\ failedAt = 0
    /\ closeInFlight = FALSE
    /\ fetchesAtClose = -1
    /\ okAtClose = 0
    /\ notFoundAt = 0

\* No cluster exists and run() has not been entered.
NoCluster ==
    /\ runPc = "none"
    /\ instances = <<>>
    /\ idx = 0
    /\ join = [i \in Nodes |-> <<>>]
    /\ proc = [i \in Nodes |-> "none"]
    /\ output = [i \in Nodes |-> FALSE]
    /\ initCmds = <<>>
    /\ failedSpawn = 0
    /\ initExit = "none"
    /\ timer = "idle"
    /\ err = NilErr
    /\ shutdownLog = <<>>
    /\ surfaced = {}
    /\ enabled = {}
    /\ NoDiagnostics

\* run() has not been entered.
NoRun == nodeCount = 1 /\ NoCluster

\* main() is not part of the behaviour.
NoMain ==
    /\ mainPc = "none"
    /\ procs = 1
    /\ procsPerInst = 0
    /\ gomaxprocs = 1
    /\ childEnv = <<>>

\* pgosweep is not part of the behaviour.
NoSweep ==
    /\ sweepPc = "none"
    /\ createTries = 0
    /\ sweepInst = 0
    /\ sweepStep = 0
    /\ stepsRun = <<>>
    /\ destroyCalls = <<>>
    /\ logOpen = FALSE
    /\ sweepErr = "nil"

\* The two reader goroutines of runBinary: of stdout and of stderr.
Readers == {"S", "E"}

\* runBinary is not part of the behaviour.
NoBinary ==
    /\ binPc = "none"
    /\ readerPc = [r \in Readers |-> "none"]
    /\ sendVal = [r \in Readers |-> "nil"]
    /\ reads = [r \in Readers |-> 0]
    /\ sent = [r \in Readers |-> 0]
    /\ recvd = [r \in Readers |-> "none"]
    /\ benchLines = 0
    /\ binRet = "none"

\* An LB as the composite literals of the program make it.
NewLB == [total |-> 0, delays |-> <<>>, worst |-> 0]

\* The GC latency benchmark is not part of the behaviour.
NoLatency ==
    /\ latPc = "none"
    /\ bN = 0
    /\ lbs = [lb0 |-> NewLB, lb |-> NewLB]
    /\ latI = 0
    /\ count = 0
    /\ average = -1

\* None of the other programs is part of the behaviour.
NoTools == NoMain /\ NoSweep /\ NoBinary /\ NoLatency

\* One call of run().
Init == InitRun /\ NoSession /\ NoTools

Spec == Init /\ [][NextRun]_vars

\* One poller session.
InitPoll == PollDiagnostic /\ NoRun /\ NoTools

(***************************************************************************)
(* shutdown() on its own: instances in any state a caller can hold them    *)
(* in, probed and shut down any number of times in any order.              *)
(***************************************************************************)
\* Most shutdown calls made in one behaviour.
MaxShutdownCalls == 2

\* An instance built by a launch function, never started (cmd == nil) or
\* started, its process still running or already exited by itself.
InitShutdown ==
    /\ NoSession
    /\ NoTools
    /\ nodeCount \in Nodes
    /\ runPc = "shutdown"
    /\ \E st \in [1..nodeCount -> {"none", "running", "exited"}] :
          /\ instances = [i \in 1..nodeCount |->
                [(IF nodeCount = 1 THEN SingleInstance
                                   ELSE ClusterInstance(i - 1))
                  EXCEPT !.cmd = IF st[i] = "none" THEN "nil" ELSE "start"]]
          /\ proc = [i \in Nodes |-> IF i <= nodeCount THEN st[i] ELSE "none"]
    /\ idx = 0
    /\ join = [i \in Nodes |-> <<>>]
    /\ output = [i \in Nodes |-> FALSE]
    /\ initCmds = <<>>
    /\ failedSpawn = 0
    /\ initExit = "none"
    /\ timer = "idle"
    /\ err = NilErr
    /\ shutdownLog = <<>>
    /\ surfaced = {}
    /\ enabled = {}
    /\ NoDiagnostics

\* One call of shutdown() on some instance.
shutdownCall ==
    /\ runPc = "shutdown"
    /\ Len(shutdownLog) < MaxShutdownCalls
    /\ \E i \in 1..nodeCount :
          \E sig \in SignalResults(CmdProcess(instances[i], proc[i])),
             wait \in WaitResults(CmdProcess(instances[i], proc[i])),
             exits \in ExitsAfterInterrupt(CmdProcess(instances[i], proc[i])) :
             LET cp == CmdProcess(instances[i], proc[i])
                 sh == OnServer(instances[i], proc[i],
                          ShutdownEnd(shutdown(instances[i], cp, sig, wait),
                                      cp, exits))
             IN  /\ proc' = [proc EXCEPT ![i] = sh.proc]
                 /\ IF sh.r = "blocks"
                    THEN runPc' = "blocked" /\ UNCHANGED shutdownLog
                    ELSE /\ runPc' = runPc
                         /\ shutdownLog' = Append(shutdownLog,
                                                  LogEntry(i, proc[i], sh))
    /\ UNCHANGED <<nodeCount, instances, idx, join, output, initCmds,
                   failedSpawn, timer, err, surfaced>>
    /\ UNCHANGED diagVars
    /\ UNCHANGED initVars
    /\ UNCHANGED pollVars
    /\ UNCHANGED toolVars

\* ping() on some instance: cmd is replaced, the probe runs to its end and
\* what it prints, its result or its error, goes to the instance's output
\* buffer.
pingCall ==
    /\ runPc = "shutdown"
    /\ \E i \in 1..nodeCount :
          /\ instances[i] # ping(instances[i])
          /\ instances' = [instances EXCEPT ![i] = ping(@)]
          /\ output' = [output EXCEPT ![i] = TRUE]
    /\ UNCHANGED <<nodeCount, runPc, idx, join, proc, initCmds, failedSpawn,
                   timer, err, shutdownLog, surfaced>>
    /\ UNCHANGED diagVars
    /\ UNCHANGED initVars
    /\ UNCHANGED pollVars
    /\ UNCHANGED toolVars

\* A server process ends by itself.
processExits ==
    /\ runPc = "shutdown"
    /\ \E i \in 1..nodeCount :
          /\ proc[i] \in {"running", "interrupted"}
          /\ proc' = [proc EXCEPT ![i] = "exited"]
    /\ UNCHANGED <<nodeCount, runPc, instances, idx, join, output, initCmds,
                   failedSpawn, timer, err, shutdownLog, surfaced>>
    /\ UNCHANGED diagVars
    /\ UNCHANGED initVars
    /\ UNCHANGED pollVars
    /\ UNCHANGED toolVars

NextShutdown ==
    \/ shutdownCall
    \/ pingCall
    \/ processExits

SpecShutdown == InitShutdown /\ [][NextShutdown]_vars

SpecPoll == InitPoll /\ [][NextPoll]_vars

(***************************************************************************)
(* main() of the cockroachdb benchmark: GOMAXPROCS is divided between the  *)
(* driver and the instances, and every child process is given the share.   *)
(***************************************************************************)
\* Most processors runtime.GOMAXPROCS(-1) reports.
MaxProcs == 8

\* procsPerInst := procs / (nodeCount + 1); if procsPerInst == 0 { = 1 }
ProcsPerInst_NoFloor(p, n) == p \div (n + 1)
ProcsPerInst(p, n) == IF p \div (n + 1) = 0 THEN 1 ELSE p \div (n + 1)

\* main() has parsed its flags and found the benchmark.
InitMain ==
    /\ NoSession
    /\ NoCluster
    /\ NoSweep
    /\ NoBinary
    /\ NoLatency
    /\ nodeCount \in Nodes
    /\ mainPc = "start"
    /\ procs \in 1..MaxProcs
    /\ procsPerInst = 0
    /\ gomaxprocs = procs
    /\ childEnv = <<>>

\* main: the share is computed, set for the driver itself with
\* runtime.GOMAXPROCS and stored in cliCfg; run is called.
main_Distribute ==
    /\ mainPc = "start"
    /\ procsPerInst' = ProcsPerInst(procs, nodeCount)
    /\ gomaxprocs' = ProcsPerInst(procs, nodeCount)
    /\ mainPc' = "instances"
    /\ UNCHANGED <<procs, childEnv>>
    /\ UNCHANGED pollVars
    /\ UNCHANGED <<sweepVars, binVars, latVars>>
    /\ UNCHANGED runVars

\* The environment given to a child process: the ambient environment plus
\* GOMAXPROCS=cfg.procsPerInst.
Env(name) == [proc |-> name, GOMAXPROCS |-> procsPerInst]

\* The launch functions: the command of the next instance is set up.
launch_InstanceEnv ==
    /\ mainPc = "instances"
    /\ childEnv' = Append(childEnv, Env("instance"))
    /\ mainPc' = IF Len(childEnv) + 1 < nodeCount THEN "instances"
                 ELSE IF UsesSingleNodeLaunch(nodeCount) THEN "workload"
                 ELSE "init"
    /\ UNCHANGED <<procs, procsPerInst, gomaxprocs>>
    /\ UNCHANGED pollVars
    /\ UNCHANGED <<sweepVars, binVars, latVars>>
    /\ UNCHANGED runVars

\* launchCockroachCluster: the cluster-init command is set up.
launch_InitEnv ==
    /\ mainPc = "init"
    /\ childEnv' = Append(childEnv, Env("init"))
    /\ mainPc' = "workload"
    /\ UNCHANGED <<procs, procsPerInst, gomaxprocs>>
    /\ UNCHANGED pollVars
    /\ UNCHANGED <<sweepVars, binVars, latVars>>
    /\ UNCHANGED runVars

\* runBenchmark: the workload command is set up.
runBenchmark_Env ==
    /\ mainPc = "workload"
    /\ childEnv' = Append(childEnv, Env("workload"))
    /\ mainPc' = "done"
    /\ UNCHANGED <<procs, procsPerInst, gomaxprocs>>
    /\ UNCHANGED pollVars
    /\ UNCHANGED <<sweepVars, binVars, latVars>>
    /\ UNCHANGED runVars

NextMain ==
    \/ main_Distribute
    \/ launch_InstanceEnv
    \/ launch_InitEnv
    \/ runBenchmark_Env

SpecMain == InitMain /\ [][NextMain]_vars

(***************************************************************************)
(* pgosweep: one call of run(cdfThresh, budget).                           *)
(***************************************************************************)
\* Most calls of Create made in one behaviour.
MaxCreateTries == 3

\* The remote steps of run, in the order of its statements.
Steps == <<"remount", "push", "make.bash", "GOPATH", "build sweet",
           "build benchstat", "config", "sweet get", "sweet run",
           "group results", "dump results", "benchstat">>

InitSweep ==
    /\ NoSession
    /\ NoRun
    /\ NoMain
    /\ NoBinary
    /\ NoLatency
    /\ sweepPc = "log"
    /\ createTries = 0
    /\ sweepInst = 0
    /\ sweepStep = 0
    /\ stepsRun = <<>>
    /\ destroyCalls = <<>>
    /\ logOpen = FALSE
    /\ sweepErr = "nil"

\* f, err := os.Create(name): on an error run returns; else defer f.Close().
sweep_CreateLog ==
    /\ sweepPc = "log"
    /\ \E ok \in BOOLEAN :
          IF ok THEN /\ logOpen' = TRUE
                     /\ sweepPc' = "create"
                     /\ UNCHANGED sweepErr
                ELSE /\ sweepErr' = "log"
                     /\ sweepPc' = "done"
                     /\ UNCHANGED logOpen
    /\ UNCHANGED <<createTries, sweepInst, sweepStep, stepsRun,
                   destroyCalls>>
    /\ UNCHANGED <<pollVars, runVars, mainVars, binVars, latVars>>

\* for { inst, err = Create(...); if err != nil { log; continue }; break }
\* then defer Destroy(ctx, logger, inst): the argument is evaluated here.
AfterCreateError == "create"

sweep_Create ==
    /\ sweepPc = "create"
    /\ createTries < MaxCreateTries
    /\ createTries' = createTries + 1
    /\ \E ok \in BOOLEAN :
          IF ok THEN /\ sweepInst' = createTries + 1
                     /\ sweepStep' = 1
                     /\ sweepPc' = "steps"
                ELSE /\ sweepPc' = AfterCreateError
                     /\ UNCHANGED <<sweepInst, sweepStep>>
    /\ UNCHANGED <<stepsRun, destroyCalls, logOpen, sweepErr>>
    /\ UNCHANGED <<pollVars, runVars, mainVars, binVars, latVars>>

\* if err := Run(...); err != nil { return fmt.Errorf(...) }: where run goes
\* after step k ended, ok or not.  Returning runs the deferred calls.
AfterStep_IgnoreError(k, ok) == IF k < Len(Steps) THEN "steps" ELSE "destroy"
AfterStep(k, ok) == IF ok /\ k < Len(Steps) THEN "steps" ELSE "destroy"

\* One remote step: Run, Push or RunViaSSH on inst.
sweep_Step ==
    /\ sweepPc = "steps"
    /\ stepsRun' = Append(stepsRun, sweepStep)
    /\ \E ok \in BOOLEAN :
          /\ sweepPc' = AfterStep(sweepStep, ok)
          /\ sweepStep' = IF AfterStep(sweepStep, ok) = "steps"
                          THEN sweepStep + 1 ELSE sweepStep
          /\ sweepErr' = IF ok \/ sweepErr # "nil" THEN sweepErr
                         ELSE Steps[sweepStep]
    /\ UNCHANGED <<createTries, sweepInst, destroyCalls, logOpen>>
    /\ UNCHANGED <<pollVars, runVars, mainVars, binVars, latVars>>

\* The deferred Destroy(ctx, logger, inst); its error is dropped.
sweep_Destroy ==
    /\ sweepPc = "destroy"
    /\ destroyCalls' = Append(destroyCalls, sweepInst)
    /\ sweepPc' = "close"
    /\ UNCHANGED <<createTries, sweepInst, sweepStep, stepsRun, logOpen,
                   sweepErr>>
    /\ UNCHANGED <<pollVars, runVars, mainVars, binVars, latVars>>

\* The deferred f.Close(); run returns.
sweep_Close ==
    /\ sweepPc = "close"
    /\ logOpen' = FALSE
    /\ sweepPc' = "done"
    /\ UNCHANGED <<createTries, sweepInst, sweepStep, stepsRun, destroyCalls,
                   sweepErr>>
    /\ UNCHANGED <<pollVars, runVars, mainVars, binVars, latVars>>

NextSweep ==
    \/ sweep_CreateLog
    \/ sweep_Create
    \/ sweep_Step
    \/ sweep_Destroy
    \/ sweep_Close

SpecSweep == InitSweep /\ [][NextSweep]_vars

(***************************************************************************)
(* bent: one call of Configuration.runBinary, from the creation of the     *)
(* pipes on.                                                               *)
(***************************************************************************)
\* Most ReadBytes calls one reader makes.
MaxReads == 3

InitBinary ==
    /\ NoSession
    /\ NoRun
    /\ NoMain
    /\ NoSweep
    /\ NoLatency
    /\ binPc = "setup"
    /\ readerPc = [r \in Readers |-> "none"]
    /\ sendVal = [r \in Readers |-> "nil"]
    /\ reads = [r \in Readers |-> 0]
    /\ sent = [r \in Readers |-> 0]
    /\ recvd = [r \in Readers |-> "none"]
    /\ benchLines = 0
    /\ binRet = "none"

\* cmd.StdoutPipe(), cmd.StderrPipe(), cmd.Start(): each returns from
\* runBinary on its error.  Then the channels are made and the two reader
\* goroutines started, and runBinary receives from doneS.
runBinary_Start ==
    /\ binPc = "setup"
    /\ \E res \in {"stdoutpipe", "stderrpipe", "command start", "ok"} :
          IF res = "ok"
          THEN /\ readerPc' = [r \in Readers |-> "read"]
               /\ binPc' = "recvS"
               /\ UNCHANGED binRet
          ELSE /\ binRet' = res
               /\ binPc' = "returned"
               /\ UNCHANGED readerPc
    /\ UNCHANGED <<sendVal, reads, sent, recvd, benchLines>>
    /\ UNCHANGED <<pollVars, runVars, mainVars, sweepVars, latVars>>

\* What r.ReadBytes('\n') can return at its k-th call: n bytes and err.
\* err is nil exactly when the bytes end in the delimiter, so n > 0 then.
\* A reader gets at most MaxReads - 1 whole lines.
ReadResults(k) ==
    {res \in [n : {0, 1}, err : {"nil", "EOF", "error"}] :
        /\ res.err = "nil" => res.n > 0
        /\ res.err = "nil" => k < MaxReads}

\* if err == io.EOF || n == 0 { break }; if err != nil { done <- err; return }
\* and done <- nil after the loop: what the goroutine does after a read.
AfterRead(res) ==
    IF res.err = "EOF" \/ res.n = 0 THEN [pc |-> "send", val |-> "nil"]
    ELSE IF res.err # "nil" THEN [pc |-> "send", val |-> res.err]
    ELSE [pc |-> "read", val |-> "nil"]

\* One iteration of the loop of f: ReadBytes, the write of a non-empty
\* result to c.benchWriter under mu, and the tests of err and n.
reader_Read(r) ==
    /\ readerPc[r] = "read"
    /\ reads' = [reads EXCEPT ![r] = @ + 1]
    /\ \E res \in ReadResults(reads[r] + 1) :
          /\ benchLines' = benchLines + res.n
          /\ readerPc' = [readerPc EXCEPT ![r] = AfterRead(res).pc]
          /\ sendVal' = [sendVal EXCEPT ![r] = AfterRead(res).val]
    /\ UNCHANGED <<binPc, sent, recvd, binRet>>
    /\ UNCHANGED <<pollVars, runVars, mainVars, sweepVars, latVars>>

\* done <- err; return, and done <- nil as the last statement of f: the
\* goroutine ends once its send has been received.
AfterSend_NoReturn(val) == IF val # "nil" THEN "send" ELSE "done"
AfterSend(val) == "done"

\* The channel runBinary receives from at each position, and where it goes.
RecvFrom == [recvS |-> "S", recvE |-> "E"]
AfterRecv == [recvS |-> "recvE", recvE |-> "wait"]

\* errS := <-doneS and errE := <-doneE: the channels are unbuffered, a send
\* and its receive happen together.
runBinary_Recv ==
    /\ binPc \in DOMAIN RecvFrom
    /\ LET r == RecvFrom[binPc]
       IN  /\ readerPc[r] = "send"
           /\ recvd' = [recvd EXCEPT ![r] = sendVal[r]]
           /\ sent' = [sent EXCEPT ![r] = @ + 1]
           /\ readerPc' = [readerPc EXCEPT ![r] = AfterSend(sendVal[r])]
           /\ sendVal' = [sendVal EXCEPT ![r] = "nil"]
    /\ binPc' = AfterRecv[binPc]
    /\ UNCHANGED <<reads, benchLines, binRet>>
    /\ UNCHANGED <<pollVars, runVars, mainVars, sweepVars, latVars>>

\* The message runBinary returns after err = cmd.Wait().
BinaryResult(werr, errS, errE) ==
    IF werr # "nil" THEN "wait"
    ELSE IF errS # "nil" THEN "read stdout"
    ELSE IF errE # "nil" THEN "read stderr"
    ELSE "ok"

\* err = cmd.Wait(), the exit code, and the return.
runBinary_Wait ==
    /\ binPc = "wait"
    /\ \E werr \in {"nil", "exit", "other"} :
          binRet' = BinaryResult(werr, recvd["S"], recvd["E"])
    /\ binPc' = "returned"
    /\ UNCHANGED <<readerPc, sendVal, reads, sent, recvd, benchLines>>
    /\ UNCHANGED <<pollVars, runVars, mainVars, sweepVars, latVars>>

NextBinary ==
    \/ runBinary_Start
    \/ \E r \in Readers : reader_Read(r)
    \/ runBinary_Recv
    \/ runBinary_Wait

SpecBinary == InitBinary /\ [][NextBinary]_vars

(***************************************************************************)
(* The GC latency benchmark: one call of LB.bench, with no trace file.     *)
(***************************************************************************)
\* The allocations of the warm-up and of one measured run: the program's
\* msgCount0 (1000000) and msgCount1 (5000000), scaled down.
msgCount0 == 1
msgCount1 == 2

\* Largest b.N the harness calls bench with.
MaxN == 2

\* Longest time one allocation takes, in nanoseconds.
MaxElapsed == 2

\* bench is called by main (b == nil) or by the harness with some b.N.
InitLatency ==
    /\ NoSession
    /\ NoRun
    /\ NoMain
    /\ NoSweep
    /\ NoBinary
    /\ latPc = "warmup"
    /\ bN \in 0..MaxN
    /\ lbs = [lb0 |-> NewLB, lb |-> NewLB]
    /\ latI = 0
    /\ count = 0
    /\ average = -1

\* storeSlice: the allocation took elapsed; worst, total and delays of the
\* LB it is called on are updated.
storeSlice(l, elapsed) ==
    [total |-> l.total + elapsed,
     delays |-> Append(l.delays, elapsed),
     worst |-> IF elapsed > l.worst THEN elapsed ELSE l.worst]

\* The LB the allocations are made on: the warm-up is lb0.work(c, msgCount0),
\* the measured run lb.doAllocations(count).
WorkOn(pc) == IF pc = "warmup" THEN "lb0" ELSE "lb"

\* The number of iterations of work at each position.
WorkCount == IF latPc = "warmup" THEN msgCount0 ELSE count

\* One iteration of the loop of work.
work ==
    /\ latPc \in {"warmup", "run"}
    /\ latI < WorkCount
    /\ \E elapsed \in 1..MaxElapsed :
          lbs' = [lbs EXCEPT ![WorkOn(latPc)] = storeSlice(@, elapsed)]
    /\ latI' = latI + 1
    /\ UNCHANGED <<latPc, bN, count, average>>
    /\ UNCHANGED <<pollVars, runVars, mainVars, sweepVars, binVars>>

\* count := msgCount1; if b != nil { count = b.N * count }
Count(n) == IF n = 0 THEN msgCount1 ELSE n * msgCount1

\* After the warm-up: lb is made, count is computed, the timer is reset.
bench_Measure ==
    /\ latPc = "warmup"
    /\ latI = msgCount0
    /\ lbs' = [lbs EXCEPT !.lb = NewLB]
    /\ count' = Count(bN)
    /\ latI' = 0
    /\ latPc' = "run"
    /\ UNCHANGED <<bN, average>>
    /\ UNCHANGED <<pollVars, runVars, mainVars, sweepVars, binVars>>

\* average := time.Duration(lb.total.Nanoseconds() / msgCount1)
Average(l) == l.total \div msgCount1

\* After the measured run: the statistics are computed and reported.
bench_Report ==
    /\ latPc = "run"
    /\ latI = count
    /\ average' = Average(lbs.lb)
    /\ latPc' = "done"
    /\ UNCHANGED <<bN, lbs, latI, count>>
    /\ UNCHANGED <<pollVars, runVars, mainVars, sweepVars, binVars>>

NextLatency ==
    \/ work
    \/ bench_Measure
    \/ bench_Report

SpecLatency == InitLatency /\ [][NextLatency]_vars

(***************************************************************************)
(* Properties of a poller session, checked under SpecPoll.                 *)
(***************************************************************************)

\* C1: the stop handle returns only after the polling goroutine has exited.
\* From the moment wg.Wait() has returned the goroutine is gone, so the
\* counter is read when nothing can write it; the value returned is the
\* counter and is >= 0; and once stop has returned no fetch is begun, the
\* output file is not written and the counter does not change.
C1_StopJoinsPoller ==
    /\ [](stopPc \in {"read", "returned"} => pollPc = "exited" /\ wgCount = 0)
    /\ [](stopPc = "returned" => ret >= 0 /\ ret = size)
    /\ [][(stopPc \in {"read", "returned"}) =>
            UNCHANGED <<fetches, fileWrites, fileLen, size>>]_vars

\* C1 witness: stop was called while a fetch was in flight, waited for it and
\* returned the bytes it had collected.
C1_Witness == stopPc = "returned" /\ closeInFlight /\ ret > 0 /\ fileWrites > 0

\* C2 as stated: a failed fetch ends the loop at once (no retry, no further
\* fetch), stop still returns a plain count, the sum over the fetches that
\* succeeded, and a session whose endpoint is unreachable makes exactly one
\* fetch attempt and returns 0.
C2_Original ==
    /\ failedAt > 0 => pollPc = "exited" /\ fetches = failedAt
    /\ stopPc = "returned" => ret = okSum
    /\ stopPc = "returned" /\ ~reachable => fetches = 1 /\ ret = 0

\* C2 amended: as C2, but a session whose endpoint is unreachable makes at
\* most one fetch attempt: exactly one, which fails, unless stop closed the
\* channel before the loop's first cancellation check, and then none.
C2_FetchFailureEndsSession ==
    /\ failedAt > 0 => pollPc = "exited" /\ fetches = failedAt
    /\ stopPc = "returned" => ret = okSum
    /\ stopPc = "returned" /\ ~reachable =>
          /\ ret = 0
          /\ \/ fetches = 1 /\ failedAt = 1
             \/ fetches = 0 /\ failedAt = 0 /\ fetchesAtClose = 0

\* C2 witness: a fetch failed after earlier ones had succeeded, and stop
\* returned the bytes of those.
C2_Witness == stopPc = "returned" /\ failedAt >= 2 /\ ret > 0

\* C3: cancellation is checked only at the loop top.  No fetch is begun once
\* the channel is closed; a fetch in flight when stop is called runs to
\* completion, and when it succeeds its bytes are part of what stop returns.
C3_CooperativeCancel ==
    /\ stopc = "closed" => fetches = fetchesAtClose
    /\ closeInFlight /\ stopPc \in {"read", "returned"} =>
          completed = fetchesAtClose
    /\ closeInFlight /\ stopPc = "returned" => ret = okAtClose + lastN

\* C3 witness: the fetch that was in flight at the stop call succeeded and
\* its bytes were returned.
C3_Witness ==
    /\ closeInFlight
    /\ stopPc = "returned"
    /\ lastN > 0
    /\ ret = okAtClose + lastN

\* C4 as stated: every successful fetch appends its body to the output file
\* and discards nothing, so after stop returns the length of the file is the
\* cumulative byte count stop returned.  Stated for the sessions none of
\* whose fetches failed, where every byte written belongs to a counted
\* snapshot.
C4_FileHoldsAllSnapshots ==
    stopPc = "returned" /\ failedAt = 0 => fileLen = ret

\* C5 as stated: a fetch answered with HTTP 404 ends the session; no further
\* fetch is begun after it.
C5_NotFoundEndsSession == notFoundAt > 0 => fetches = notFoundAt

(***************************************************************************)
(* Properties of run(), checked under Spec.                                *)
(***************************************************************************)

\* The launch function has built its instance list.
ListBuilt == runPc \notin {"none", "launch"}

\* The loop of launchCockroachCluster has built the --join argument of the
\* instance at position n.
JoinBuilt(n) ==
    /\ ListBuilt
    /\ nodeCount > 1
    /\ \/ runPc = "spawn" /\ n < idx
       \/ runPc # "spawn" /\ (failedSpawn = 0 \/ n <= failedSpawn)

\* Number of shutdown calls made on the instance at position i.
ShutdownCalls(i) ==
    Cardinality({k \in DOMAIN shutdownLog : shutdownLog[k].inst = i})

\* C6: for every node count N >= 1 the cluster has exactly N instances;
\* instance i (0-based) has data port basePort+2i and control port
\* basePort+2i+1; the 2N ports are pairwise distinct; N=1 gives 26257 and
\* 26258, N=3 gives the data ports 26257, 26259, 26261.
C6_TopologyPorts ==
    ListBuilt =>
       /\ Len(instances) = nodeCount
       /\ \A i \in 1..Len(instances) :
             /\ instances[i].sqlPort = basePort + 2 * (i - 1)
             /\ instances[i].httpPort = basePort + 2 * (i - 1) + 1
       /\ Cardinality({instances[i].sqlPort : i \in 1..Len(instances)} \cup
                      {instances[i].httpPort : i \in 1..Len(instances)})
             = 2 * nodeCount
       /\ nodeCount = 1 =>
             instances[1].sqlPort = 26257 /\ instances[1].httpPort = 26258
       /\ nodeCount = 3 =>
             [i \in 1..3 |-> instances[i].sqlPort] = <<26257, 26259, 26261>>

\* C6 witness: a three-node cluster has been launched with the ports of the
\* scenario.
C6_Witness ==
    /\ runPc = "ready"
    /\ nodeCount = 3
    /\ \A i \in 1..3 : proc[i] = "running"
    /\ instances[3].sqlPort = 26261
    /\ instances[3].httpPort = 26262

\* C7: in a multi-node cluster the join set of instance n is the data
\* addresses of the other N-1 instances in instance order, never its own,
\* and building it alters neither the instance list nor another join set.
C7_JoinExcludesSelf ==
    /\ \A n \in 1..nodeCount :
          JoinBuilt(n) =>
             /\ join[n] = [k \in 1..(nodeCount - 1) |->
                             [host |-> Host,
                              port |-> basePort +
                                       2 * ((IF k < n THEN k ELSE k + 1) - 1)]]
             /\ \A k \in DOMAIN join[n] : join[n][k] # sqlAddr(instances[n])
    /\ ListBuilt /\ nodeCount > 1 =>
          /\ Len(instances) = nodeCount
          /\ \A i \in 1..Len(instances) :
                /\ instances[i].name = <<"roach-node", i>>
                /\ instances[i].sqlPort = basePort + 2 * (i - 1)

\* C7 witness: all three join sets of a three-node cluster are built, the
\* middle one listing exactly the two other addresses.
C7_Witness ==
    /\ nodeCount = 3
    /\ runPc = "init"
    /\ join[2] = <<[host |-> Host, port |-> 26257],
                   [host |-> Host, port |-> 26261]>>
    /\ join[1] = <<[host |-> Host, port |-> 26259],
                   [host |-> Host, port |-> 26261]>>

\* C8 as stated: a single-node run issues no cluster-init command; a
\* multi-node run issues exactly one, addressed to instance 0.
C8_Original ==
    runPc = "done" =>
       /\ nodeCount = 1 => initCmds = <<>>
       /\ nodeCount > 1 =>
             Len(initCmds) = 1 /\ initCmds[1] = sqlAddr(instances[1])

\* C8 amended: a single-node run issues no cluster-init command; a
\* multi-node run issues at most one, always addressed to instance 0:
\* exactly one when every instance was spawned, none when a spawn failed.
C8_InitOncePrimary ==
    /\ nodeCount = 1 => initCmds = <<>>
    /\ Len(initCmds) <= 1
    /\ \A k \in DOMAIN initCmds :
          initCmds[k] = sqlAddr(instances[1]) /\ initCmds[k].port = basePort
    /\ runPc \in {"ready", "bench", "workload", "finish", "teardown",
                 "blocked"}
         /\ nodeCount > 1 =>
          Len(initCmds) = 1
    /\ runPc = "done" /\ nodeCount > 1 =>
          (Len(initCmds) = 1 <=> failedSpawn = 0)

\* C8 witness: a three-node run has ended without error, having issued its
\* one init command.
C8_Witness ==
    /\ runPc = "done"
    /\ nodeCount = 3
    /\ err = NilErr
    /\ Len(initCmds) = 1

\* C9: once the cluster is launched, shutdown is called exactly once on
\* every instance before run returns, whether the workload succeeded or
\* failed, and whatever the shutdown of an earlier instance returned.
C9_ShutdownEveryInstanceOnce ==
    /\ \A i \in Nodes : ShutdownCalls(i) <= 1
    /\ runPc = "done" /\ err # ErrStartingCluster =>
          \A i \in 1..nodeCount : ShutdownCalls(i) = 1

\* C9 witness: the workload failed, the shutdown of the first instance
\* failed too, and every instance was still shut down once.
C9_Witness ==
    /\ runPc = "done"
    /\ nodeCount >= 2
    /\ err.kind = "workload"
    /\ Len(shutdownLog) = nodeCount
    /\ shutdownLog[1].r # "nil"
    /\ \A i \in 1..nodeCount : ShutdownCalls(i) = 1

\* C10 as stated: when spawning instance k fails, every instance started
\* before it is shut down before run returns the launch error; no started
\* process is left running.
C10_SpawnFailureTearsDown ==
    runPc = "done" /\ failedSpawn > 0 =>
       /\ \A i \in 1..(failedSpawn - 1) : ShutdownCalls(i) = 1
       /\ \A i \in Nodes : proc[i] # "running"

(***************************************************************************)
(* Claims about the result of run() and about shutdown().                  *)
(***************************************************************************)
\* The positions in shutdownLog of the calls that returned an error.
FailedShutdowns == {k \in DOMAIN shutdownLog : shutdownLog[k].r # "nil"}

\* The least element of a non-empty set of numbers.
Least(S) == CHOOSE x \in S : \A y \in S : x <= y

\* The error of the first shutdown call that failed, nil when none did.
FirstShutdownError ==
    IF FailedShutdowns = {} THEN NilErr
    ELSE [kind |-> "shutdown",
          inst |-> shutdownLog[Least(FailedShutdowns)].inst]

\* C11: the error returned by run is the benchmark/workload error whenever
\* there is one, even if instance shutdowns fail too; a shutdown error is
\* returned only when the run otherwise succeeded, and then it is the error
\* of the first failing instance in instance order.
C11_RunErrorPrecedence ==
    runPc = "done" /\ bodyErr # NoErr =>
       err = IF bodyErr # NilErr THEN bodyErr ELSE FirstShutdownError

\* C11 witness: the workload failed, two shutdowns failed as well, and run
\* returned the workload's error.
C11_Witness ==
    /\ runPc = "done"
    /\ bodyErr.kind = "workload"
    /\ Cardinality(FailedShutdowns) >= 2
    /\ err = bodyErr

\* C12 as stated: if the workload succeeds and every instance shutdown
\* succeeds, no instance's captured output is written to the error stream;
\* output is surfaced only in runs that end in error.
C12_Original ==
    /\ benchErr.kind \in {"nil", "report"} /\ FailedShutdowns = {} =>
          surfaced = {}
    /\ surfaced # {} => err # NilErr

\* C12 amended: if the benchmark body returns no error (the workload
\* succeeds and its results are reported) and every instance shutdown
\* succeeds, no instance's captured output is written to the error stream;
\* output is surfaced only in runs that end in error.
C12_OutputOnlyOnError ==
    /\ bodyErr = NilErr /\ FailedShutdowns = {} => surfaced = {}
    /\ surfaced # {} => err # NilErr

\* C12 witness: a run has ended without error; an instance had captured
\* output and none was written.
C12_Witness ==
    /\ runPc = "done"
    /\ err = NilErr
    /\ \E i \in 1..nodeCount : output[i]
    /\ surfaced = {}

\* C13 as stated: shutdown of a started instance always waits for the
\* instance's process, even when sending the termination signal fails, and
\* returns the first error it encountered.
C13_ShutdownAlwaysReaps ==
    \A k \in DOMAIN shutdownLog :
       instances[shutdownLog[k].inst].cmd # "nil" => shutdownLog[k].waited

\* C14 as stated: shutdown of an instance that was never started, or whose
\* process has already exited and been waited for by an earlier shutdown,
\* returns no error and changes nothing.
C14_ShutdownIdempotent ==
    \A k \in DOMAIN shutdownLog :
       shutdownLog[k].before \in {"none", "reaped"} =>
          shutdownLog[k].r = "nil" /\ shutdownLog[k].after = shutdownLog[k].before

(***************************************************************************)
(* Claims about the diagnostics of the benchmark body.                     *)
(***************************************************************************)
\* The step in which the benchmark body returns.
BodyReturns == runPc = "finish" /\ runPc' = "teardown"

\* The finishers of one kind.
FinishersOfKind(kind) ==
    {k \in 1..Len(finishers) : finishers[k].kind = kind}

\* The sum of what the finishers in K returned.
RECURSIVE SumRet(_)
SumRet(K) ==
    IF K = {} THEN 0
    ELSE LET k == CHOOSE x \in K : TRUE
         IN  finRet[k] + SumRet(K \ {k})

\* C15: if the workload process fails, every diagnostic session that was
\* started is still stopped and joined before the benchmark body returns,
\* and the error the body returns is the workload's error.
C15_FailureStillStopsSessions ==
    [][BodyReturns /\ benchErr.kind = "workload" =>
          /\ \A k \in 1..Len(finishers) :
                fin[k] = "returned" /\ sess[k] \in {"none", "stopped"}
          /\ bodyErr' = benchErr]_vars

\* C15 witness: the body has just returned the workload's error, after
\* finishers had returned.
C15_Witness ==
    /\ runPc = "teardown"
    /\ shutdownLog = <<>>
    /\ bodyErr.kind = "workload"
    /\ Cardinality(enabled) = 2
    /\ "ok" \in diagOutcomes

\* C16 as stated: for every enabled diagnostic kind the run reports a
\* non-negative byte total, the sum of that kind's session byte counts over
\* all instances, whether the workload succeeds or fails.
C16_TotalsForEveryKind ==
    [][BodyReturns =>
          \A kind \in enabled :
             \E r \in DOMAIN reported' :
                /\ reported'[r].kind = kind
                /\ reported'[r].value >= 0
                /\ reported'[r].value = SumRet(FinishersOfKind(kind))]_vars

\* C17: the stop of each of the K sessions is launched on its own task
\* and never waits for another session's stop to return, so all K stops can
\* be in progress at once; the body returns only after all K have returned.
C17_StopsRunConcurrently ==
    /\ [](\A k \in 1..Len(finishers) :
             runPc = "finish" /\ fin[k] = "go" => ENABLED finisherCall(k))
    /\ [][BodyReturns =>
             \A k \in 1..Len(finishers) : fin[k] = "returned"]_vars

\* C17 witness: the stops of four sessions are in progress at the same
\* time, none having returned.
C17_Witness ==
    /\ runPc = "finish"
    /\ Len(finishers) = 4
    /\ \A k \in 1..Len(finishers) : fin[k] = "called"

\* C18 as stated: every diagnostic session is started before the timer is
\* started and is stopped only after the timer has been stopped.
C18_SessionsOutsideTimedWindow ==
    /\ runPc \in {"launch", "spawn", "init", "ready"} => timer = "idle"
    /\ \A k \in 1..Len(finishers) :
          fin[k] \in {"called", "returned"} => timer = "stopped"

\* C19: diagnostic outcomes never influence the run's result: the error
\* the body returns is the one runBenchmark returned, and the error run
\* returns is determined by that error and the shutdown results alone,
\* whether the sessions succeed, fail on their first fetch or fail part-way.
C19_DiagnosticsNeverFailRun ==
    /\ bodyErr # NoErr => bodyErr = benchErr
    /\ runPc = "done" /\ benchErr # NoErr =>
          err = IF benchErr # NilErr THEN benchErr ELSE FirstShutdownError

\* C19 witness: a run has ended without error although one session failed
\* on its first fetch and another part-way.
C19_Witness ==
    /\ runPc = "done"
    /\ err = NilErr
    /\ {"failed-first", "failed-partway"} \subseteq diagOutcomes

\* C20 as stated: when the workload starts, one polling session is running
\* for every pair of an enabled kind and an instance, the heap kind
\* included: the sessions number the enabled kinds times N.
C20_SessionPerKindAndInstance ==
    runPc = "workload" =>
       /\ Cardinality({k \in 1..Len(finishers) : sess[k] # "none"})
             = Cardinality(enabled) * nodeCount
       /\ \A kind \in enabled, i \in 1..nodeCount :
             \E k \in 1..Len(finishers) :
                finishers[k] = [kind |-> kind, inst |-> i] /\ sess[k] # "none"

(***************************************************************************)
(* Claims about the launch sequence.                                       *)
(***************************************************************************)
\* The instance has been probed by ping: its cmd is the probe's command.
Probed(inst) == inst.cmd = ping(inst).cmd

\* The benchmark body has been entered.
InRunner == runPc \in {"bench", "workload", "finish"}

\* C21 as stated: control passes to the benchmark runner only after every
\* instance has answered a readiness probe; the workload is never started
\* against an instance that has not been probed ready.
C21_ProbedBeforeRunner ==
    InRunner => \A i \in 1..nodeCount : Probed(instances[i])

\* C22 as stated: in a multi-node cluster, if the cluster-init command
\* exits non-zero, the run aborts with an error and the workload is not
\* executed.
C22_InitFailureAborts ==
    nodeCount > 1 /\ initExit = "nonzero" =>
       /\ ~InRunner
       /\ timer = "idle"
       /\ runPc = "done" => err # NilErr

\* C23: in a multi-node cluster the cluster-init command is issued only
\* after the process of every one of the N instances has been started,
\* never while some instance is still unspawned.
C23_InitAfterAllSpawned ==
    runPc = "init" \/ initCmds # <<>> =>
       \A i \in 1..nodeCount :
          instances[i].cmd = "start" /\ proc[i] # "none"

\* C23 witness: the init command of a three-node cluster has been issued,
\* all three processes having been started.
C23_Witness ==
    /\ runPc = "ready"
    /\ nodeCount = 3
    /\ Len(initCmds) = 1
    /\ \A i \in 1..3 : instances[i].cmd = "start"

\* C24: if spawning any instance fails, the launch aborts: no further
\* instance is spawned, no cluster-init command is issued, no diagnostic
\* session is started, the workload is never executed, and run returns an
\* error; the workload only runs when all N spawns succeeded.
C24_SpawnFailureAborts ==
    /\ failedSpawn > 0 =>
          /\ runPc = "done"
          /\ err = ErrStartingCluster
          /\ \A i \in Nodes : i >= failedSpawn => proc[i] = "none"
          /\ initCmds = <<>>
          /\ finishers = <<>> /\ diagOutcomes = {} /\ reported = <<>>
          /\ timer = "idle" /\ benchErr = NoErr /\ bodyErr = NoErr
    /\ timer # "idle" =>
          failedSpawn = 0 /\ \A i \in 1..nodeCount : proc[i] # "none"

\* C24 witness: in a three-node run the second spawn failed after the
\* first had succeeded, and run has returned.
C24_Witness ==
    /\ runPc = "done"
    /\ nodeCount = 3
    /\ failedSpawn = 2
    /\ proc[1] = "running"
    /\ proc[3] = "none"

(***************************************************************************)
(* Claims about the sessions of one run.                                   *)
(***************************************************************************)
\* The collection of finisher k is in progress: its poller runs, or its
\* one-shot collection does.
Active(k) ==
    \/ sess[k] \in {"live", "closed"}
    \/ sess[k] = "none" /\ fin[k] = "called"

\* C25: at every moment of a run there is at most one active diagnostic
\* session for each pair of an instance and a diagnostic kind.
C25_OneSessionPerInstanceAndKind ==
    \A j, k \in 1..Len(finishers) :
       j # k /\ Active(j) /\ Active(k) =>
          <<finishers[j].inst, finishers[j].kind>>
             # <<finishers[k].inst, finishers[k].kind>>

\* C25 witness: four sessions, of two kinds on two instances, are active
\* while the workload runs.
C25_Witness ==
    /\ runPc = "workload"
    /\ nodeCount = 2
    /\ Cardinality({k \in 1..Len(finishers) : Active(k)}) = 4

\* C26 as stated: no two diagnostic sessions active at the same time write
\* to the same output path.
C26_SingleWriterPerPath ==
    \A j, k \in 1..Len(finishers) :
       j # k /\ Active(j) /\ Active(k) =>
          outputPath(finishers[j]) # outputPath(finishers[k])

\* C27: in every run in which the benchmark body executes, the stop handle
\* of every started poller session is invoked exactly once: it has been
\* invoked, and the session stopped, when the body returns, and it is never
\* invoked twice.
C27_StopCalledExactlyOnce ==
    /\ [](\A k \in 1..Len(stopCalls) : stopCalls[k] <= 1)
    /\ [][BodyReturns =>
             \A k \in 1..Len(finishers) :
                sess[k] # "none" => stopCalls[k] = 1 /\ sess[k] = "stopped"]_vars

\* C27 witness: the stop handles of four poller sessions have each been
\* invoked once and have returned.
C27_Witness ==
    /\ runPc = "finish"
    /\ Len(finishers) = 4
    /\ \A k \in 1..Len(finishers) :
          stopCalls[k] = 1 /\ sess[k] = "stopped" /\ fin[k] = "returned"

\* C28 as stated: no instance process receives a termination or kill
\* signal while a diagnostic session targeting it has not yet been stopped.
C28_SessionsStoppedBeforeSignals ==
    \A k \in 1..Len(finishers) :
       sess[k] \in {"live", "closed"} =>
          proc[finishers[k].inst] \notin {"killed", "interrupted", "reaped"}

\* C29 as stated: running the workload leaves every instance's process
\* state, launch handle and captured output unchanged: no step of
\* runBenchmark changes them.
C29_RunnerLeavesInstancesAlone ==
    [][((runPc \in {"bench", "workload"}) /\ runPc' # runPc) =>
          (proc' = proc /\ instances' = instances /\ output' = output)]_vars

\* C30 as stated: the runner stops the timer after the workload process
\* ends, on the success path and on the failure path, before any diagnostic
\* session is stopped.
C30_TimerStoppedOnBothPaths ==
    runPc = "finish" => timer = "stopped"


(***************************************************************************)
(* Claims about the trace total, teardown and the probe.                   *)
(***************************************************************************)
\* C31: when trace collection is enabled, the body reports trace-bytes
\* once, its value being the sum over all instances of what the trace
\* sessions' stop handles returned, and the sum is read only after every
\* stop goroutine has been joined, whether the workload succeeded or failed.
C31_TraceBytesIsJoinedSum ==
    [][BodyReturns /\ "trace" \in enabled =>
          /\ \A k \in 1..Len(finishers) : fin[k] = "returned"
          /\ traceSum = SumRet(FinishersOfKind("trace"))
          /\ \E r \in DOMAIN reported' :
                /\ reported'[r].name = "trace-bytes"
                /\ reported'[r].value = SumRet(FinishersOfKind("trace"))
                /\ \A q \in DOMAIN reported' :
                      reported'[q].name = "trace-bytes" => q = r]_vars

\* C31 witness: the workload failed, the trace sessions of two instances
\* each returned a byte, and the body has reported a trace-bytes of 2.
C31_Witness ==
    /\ runPc = "teardown"
    /\ shutdownLog = <<>>
    /\ nodeCount = 2
    /\ bodyErr.kind = "workload"
    /\ \E r \in DOMAIN reported :
          reported[r].name = "trace-bytes" /\ reported[r].value = 2

\* C32: shutdown sends one interrupt and then waits for the process to exit,
\* with no timeout and no forced kill.  A shutdown call never kills a
\* process, and one whose wait returned without error has reaped it.  The
\* teardown can always take its next step, so it ends when every
\* interrupted instance exits; when an interrupted instance never exits,
\* run stays in the shutdown call of that instance for ever: the process
\* stays interrupted, no later instance is shut down and run never returns.
C32_ShutdownWaitsWithoutTimeout ==
    /\ [](\A k \in DOMAIN shutdownLog :
            /\ shutdownLog[k].after = "killed" =>
                  shutdownLog[k].before = "killed"
            /\ shutdownLog[k].waited => shutdownLog[k].after # "running"
            /\ shutdownLog[k].waited /\ shutdownLog[k].r = "nil" =>
                  shutdownLog[k].after = "reaped")
    /\ [](runPc = "teardown" => ENABLED deferredShutdown)
    /\ [](runPc = "blocked" =>
            /\ proc[idx] = "interrupted"
            /\ ShutdownCalls(idx) = 0
            /\ Len(shutdownLog) = idx - 1)
    /\ [][runPc = "blocked" => runPc' = "blocked" /\ proc' = proc]_vars

\* C32 witness: in a two-node run whose workload failed, the first instance
\* was interrupted, exited and was reaped; the second was interrupted and
\* never exits, and run is blocked in its shutdown.
C32_Witness ==
    /\ runPc = "blocked"
    /\ nodeCount = 2
    /\ idx = 2
    /\ shutdownLog[1].before = "running"
    /\ shutdownLog[1].after = "reaped"
    /\ proc[2] = "interrupted"

\* C35 as stated: whenever run returns an error after the cluster was
\* launched, the captured output of every instance with non-empty output
\* has been written to the error stream, also when the only error of the
\* run is the shutdown failure of an instance that is not the first.
C35_ErrorSurfacesAllOutput ==
    runPc = "done" /\ err # NilErr /\ err # ErrStartingCluster =>
       \A i \in 1..nodeCount : output[i] => i \in surfaced

\* The polling loop ended by itself on a failed collection, and the stop
\* handle was called only afterwards.
StoppedAfterFailure ==
    /\ failedAt > 0
    /\ stopc = "closed"
    /\ ~closeInFlight
    /\ fetchesAtClose = failedAt

\* C34: calling the stop handle of a session whose loop has already exited
\* on a fetch error does not block and does not fail: once the loop has
\* exited every step of the stop handle can be taken, and the handle
\* returns the bytes collected before the error.
C34_StopAfterFailedLoop ==
    /\ [](failedAt > 0 /\ pollPc = "exited" =>
            /\ stopPc = "idle" => ENABLED StopClose
            /\ stopPc = "wait" => ENABLED StopWait
            /\ stopPc = "read" => ENABLED StopReturn)
    /\ [](StoppedAfterFailure /\ stopPc = "returned" =>
            ret = okAtClose /\ ret = okSum /\ ret >= 0)

\* C34 witness: the second collection failed, the stop handle was called
\* after the loop had exited, and it returned the bytes of the first.
C34_Witness ==
    /\ StoppedAfterFailure
    /\ stopPc = "returned"
    /\ failedAt = 2
    /\ ret > 0

\* C36 as stated: the readiness probe leaves the instance's launch handle
\* unchanged: the cmd of an instance is the command that started its
\* server, and nil when it was never started, so that a shutdown made after
\* a probe signals and waits for the server process.
C36_ProbeKeepsLaunchHandle ==
    /\ \A i \in 1..nodeCount :
          instances[i].cmd = IF proc[i] = "none" THEN "nil" ELSE "start"
    /\ \A i \in 1..nodeCount :
          CmdProcess(instances[i], proc[i]) = proc[i]

(***************************************************************************)
(* Claims about main(), checked under SpecMain.                            *)
(***************************************************************************)
\* The names of the child processes set up.
ChildNames == [k \in DOMAIN childEnv |-> childEnv[k].proc]

\* C33: the per-process parallelism cap is P div (N+1) for P processors and
\* N nodes, raised to 1 when that quotient is 0; the same cap is applied to
\* the driver, to every instance, to the cluster-init command and to the
\* workload process; the cap is >= 1, and cap*(N+1) <= P when P >= N+1.
C33_ParallelismCap ==
    mainPc \notin {"none", "start"} =>
       /\ procs \div (nodeCount + 1) > 0 =>
             procsPerInst = procs \div (nodeCount + 1)
       /\ procs \div (nodeCount + 1) = 0 => procsPerInst = 1
       /\ procsPerInst >= 1
       /\ procs >= nodeCount + 1 => procsPerInst * (nodeCount + 1) <= procs
       /\ gomaxprocs = procsPerInst
       /\ \A k \in DOMAIN childEnv : childEnv[k].GOMAXPROCS = procsPerInst
       /\ mainPc = "done" =>
             ChildNames = [i \in 1..nodeCount |-> "instance"]
                \o (IF nodeCount > 1 THEN <<"init">> ELSE <<>>)
                \o <<"workload">>

\* C33 witness: with 2 processors and 3 nodes the quotient is 0; the three
\* instances, the init command and the workload all got a cap of 1.
C33_Witness ==
    /\ mainPc = "done"
    /\ nodeCount = 3
    /\ procs = 2
    /\ Len(childEnv) = 5
    /\ procsPerInst = 1

(***************************************************************************)
(* Claims about pgosweep, checked under SpecSweep.                         *)
(***************************************************************************)
\* C37: instance creation is retried until it succeeds; after that the
\* remote steps are executed strictly in order, the first failing step
\* prevents every later step, and Destroy is called exactly once, on the
\* created instance, before run returns, on the success path and on every
\* failure path.
C37_StepsInOrderDestroyOnce ==
    /\ sweepPc = "create" => sweepInst = 0
    /\ sweepInst = 0 => stepsRun = <<>> /\ destroyCalls = <<>>
    /\ sweepInst # 0 => sweepInst = createTries
    /\ \A j \in DOMAIN stepsRun : stepsRun[j] = j
    /\ sweepErr \notin {"nil", "log"} =>
          /\ Steps[Len(stepsRun)] = sweepErr
          /\ sweepPc # "steps"
    /\ sweepPc = "steps" => destroyCalls = <<>>
    /\ sweepPc \in {"close", "done"} /\ sweepErr # "log" =>
          sweepInst # 0 /\ destroyCalls = <<sweepInst>>
    /\ sweepPc = "done" /\ sweepErr = "nil" => Len(stepsRun) = Len(Steps)

\* C37 witness: the first Create failed and the second succeeded; the
\* "sweet run" step failed, nothing was executed after it, Destroy was
\* called on the instance and run has returned.
C37_Witness ==
    /\ sweepPc = "done"
    /\ createTries = 2
    /\ sweepErr = "sweet run"
    /\ Len(stepsRun) = 9
    /\ destroyCalls = <<2>>

(***************************************************************************)
(* Claims about bent's runBinary, checked under SpecBinary.                *)
(***************************************************************************)
\* C38: each of the two reader goroutines sends exactly one value on its
\* own channel on every path (end of file, empty read, read error);
\* runBinary receives both values before it waits for the process, so it
\* never waits on a channel whose sender has ended, and no reader is
\* running or blocked when runBinary returns.
C38_ReadersSendOnce ==
    /\ \A r \in Readers :
          /\ sent[r] <= 1
          /\ readerPc[r] = "done" <=> sent[r] = 1
          /\ sent[r] = 1 <=> recvd[r] # "none"
    /\ \A p \in DOMAIN RecvFrom :
          binPc = p => readerPc[RecvFrom[p]] \in {"read", "send"}
    /\ binPc \in {"wait", "returned"} =>
          \/ \A r \in Readers : readerPc[r] = "done" /\ sent[r] = 1
          \/ binRet \in {"stdoutpipe", "stderrpipe", "command start"}
               /\ \A r \in Readers : readerPc[r] = "none"

\* C38 witness: the stdout reader ended on a read error after a line, the
\* stderr reader on an empty read; both values were received, the process
\* was waited for and runBinary returned the stdout read error.
C38_Witness ==
    /\ binPc = "returned"
    /\ binRet = "read stdout"
    /\ recvd = [r \in Readers |-> IF r = "S" THEN "error" ELSE "nil"]
    /\ reads["S"] = 2
    /\ benchLines = 2
    /\ \A r \in Readers : readerPc[r] = "done"

(***************************************************************************)
(* Claims about the GC latency benchmark, checked under SpecLatency.       *)
(***************************************************************************)
\* The sum of a sequence of durations.
RECURSIVE SumSeq(_)
SumSeq(q) == IF q = <<>> THEN 0 ELSE Head(q) + SumSeq(Tail(q))

\* C39 as stated: the reported average allocation latency is the total
\* measured latency of the measured run divided by the number of
\* allocations made in that run (b.N times msgCount1 under the harness),
\* and the warm-up allocations are part of neither the total nor the delay
\* samples.
C39_AverageOverAllocations ==
    latPc = "done" =>
       /\ Len(lbs.lb.delays) = Count(bN)
       /\ lbs.lb.total = SumSeq(lbs.lb.delays)
       /\ average = lbs.lb.total \div Len(lbs.lb.delays)
=============================================================================
